---- MODULE Spec2Model ----
(***************************************************************************)
(* A model of exercise-02/network.py: the three layer classes (ReLULayer,  *)
(* OutputLayer, LinearLayer), the MLP that stacks them, and MLP.train.     *)
(*                                                                         *)
(* Numbers.  numpy's floating point values are modelled as exact rational  *)
(* numbers <<n, d>> (d > 0, lowest terms), so that the division by the     *)
(* batch size in LinearLayer.backward and the products of the matrix       *)
(* operations are computed, not abstracted.  A matrix is a sequence of     *)
(* rows, a vector a sequence of numbers.                                   *)
(*                                                                         *)
(* An attribute that __init__ does not create (input, grad_B, grad_b) is   *)
(* a sequence of length 0 while unset and of length 1 once assigned.       *)
(***************************************************************************)
EXTENDS Integers, Sequences, FiniteSets, TLC

\* ------------------------------------------------------------------------
\* Bounds of the model
\* ------------------------------------------------------------------------
MaxN == 3
MaxEpochs == 2
MaxWork == 4
MaxDepth == 3
MaxWidth == 2
MaxCalls == 2

\* ------------------------------------------------------------------------
\* Exact rational arithmetic
\* ------------------------------------------------------------------------
\* TLC passes the arguments of an operator unevaluated and may evaluate one
\* again at each use.  Strict2(F, x, y) is F(x, y) with x and y evaluated
\* once: the scalar operations below are strict, so that the cost of a
\* nested expression is linear in its size.
Strict2(F(_, _), x, y) == CHOOSE r \in {F(u, v) : u \in {x}, v \in {y}} : TRUE

Abs(n) == IF n < 0 THEN -n ELSE n

RECURSIVE GCD(_, _)
GCD(a, b) == IF b = 0 THEN a ELSE Strict2(GCD, b, a % b)

Reduce(n, g) == <<n[1] \div g, n[2] \div g>>
RatOf(n, d) == Strict2(Reduce, IF d < 0 THEN <<-n, -d>> ELSE <<n, d>>, GCD(Abs(n), Abs(d)))
\* n/d in lowest terms with a positive denominator (d # 0)
Rat(n, d) == Strict2(RatOf, n, d)

Num(k) == <<k, 1>>
Zero == Num(0)
One == Num(1)

\* the operands are in lowest terms; common factors are cancelled before the
\* products are taken, which keeps the intermediate integers small
RAddBy(pq, g) ==
    Rat(pq[1][1] * (pq[2][2] \div g) + pq[2][1] * (pq[1][2] \div g),
        (pq[1][2] \div g) * pq[2][2])
RAddOf(p, q) == Strict2(RAddBy, <<p, q>>, GCD(p[2], q[2]))
RAdd(p, q) == Strict2(RAddOf, p, q)
RNeg(p) == Rat(0 - p[1], p[2])
RSub(p, q) == RAdd(p, RNeg(q))
RMulBy(pq, g) ==
    Rat((pq[1][1] \div g[1]) * (pq[2][1] \div g[2]),
        (pq[1][2] \div g[2]) * (pq[2][2] \div g[1]))
RMulOf(p, q) ==
    Strict2(RMulBy, <<p, q>>, <<GCD(Abs(p[1]), q[2]), GCD(Abs(q[1]), p[2])>>)
RMul(p, q) == Strict2(RMulOf, p, q)
RInvOf(q, u) == Rat(q[2], q[1])
RDiv(p, q) == RMul(p, Strict2(RInvOf, q, 0))
RLessOf(p, q) == p[1] * q[2] < q[1] * p[2]
RLess(p, q) == Strict2(RLessOf, p, q)
RLeq(p, q) == ~RLess(q, p)
RMax(p, q) == IF RLess(p, q) THEN q ELSE p
RAbsOf(p, u) == <<Abs(p[1]), p[2]>>
RAbs(p) == Strict2(RAbsOf, p, 0)

RECURSIVE RSumTo(_, _)
RSumTo(s, n) == IF n = 0 THEN Zero ELSE RAdd(RSumTo(s, n - 1), s[n])
\* the sum of a sequence of numbers
RSum(s) == Strict2(LAMBDA t, z : RSumTo(t, Len(t)), s, 0)

\* ------------------------------------------------------------------------
\* numpy's array operations, on matrices with at least one row
\* ------------------------------------------------------------------------
Rows(M) == Len(M)
Cols(M) == Len(M[1])
Shape(M) == <<Rows(M), Cols(M)>>

\* M.T
Transpose(M) ==
    Strict2(LAMBDA A, z : [j \in 1..Cols(A) |-> [i \in 1..Rows(A) |-> A[i][j]]], M, 0)
\* A @ M
MatMul(A, M) ==
    Strict2(LAMBDA P, Q :
                [i \in 1..Rows(P) |->
                    [j \in 1..Cols(Q) |->
                        RSum([k \in 1..Rows(Q) |-> RMul(P[i][k], Q[k][j])])]],
            A, M)
\* M + v, the vector broadcast over the rows
AddRowVec(M, v) ==
    Strict2(LAMBDA A, w :
                [i \in 1..Rows(A) |-> [j \in 1..Cols(A) |-> RAdd(A[i][j], w[j])]],
            M, v)
\* np.sum(M, axis=0)
SumAxis0(M) ==
    Strict2(LAMBDA A, z : [j \in 1..Cols(A) |-> RSum([i \in 1..Rows(A) |-> A[i][j]])],
            M, 0)
\* elementwise A - M, A * M, c * M, v - w, c * v, v / c
MatSub(A, M) ==
    Strict2(LAMBDA P, Q :
                [i \in 1..Rows(P) |-> [j \in 1..Cols(P) |-> RSub(P[i][j], Q[i][j])]],
            A, M)
MatHadamard(A, M) ==
    Strict2(LAMBDA P, Q :
                [i \in 1..Rows(P) |-> [j \in 1..Cols(P) |-> RMul(P[i][j], Q[i][j])]],
            A, M)
MatScale(c, M) ==
    Strict2(LAMBDA a, A :
                [i \in 1..Rows(A) |-> [j \in 1..Cols(A) |-> RMul(a, A[i][j])]],
            c, M)
VecSub(v, w) == Strict2(LAMBDA p, q : [j \in 1..Len(p) |-> RSub(p[j], q[j])], v, w)
VecScale(c, v) == Strict2(LAMBDA a, p : [j \in 1..Len(p) |-> RMul(a, p[j])], c, v)
VecDiv(v, c) == Strict2(LAMBDA p, a : [j \in 1..Len(p) |-> RDiv(p[j], a)], v, c)
\* np.eye(n)
Eye(n) == [i \in 1..n |-> [j \in 1..n |-> IF i = j THEN One ELSE Zero]]

\* ------------------------------------------------------------------------
\* The layer classes.  A layer object is a record; a method is an operator
\* from the object and the arguments to the object afterwards (self) and the
\* returned value (ret).
\* ------------------------------------------------------------------------
Unset == <<>>
IsSet(attr) == Len(attr) = 1

NewLayer(kind) ==
    [kind |-> kind, n_inputs |-> 0, n_outputs |-> 0, n_classes |-> 0,
     B |-> <<>>, b |-> <<>>, input |-> Unset, grad_B |-> Unset, grad_b |-> Unset]

\* ---- class ReLULayer ----
ReLULayer_new == NewLayer("ReLU")

\* relu = np.maximum(0, input)
ReLULayer_forward(self, input) ==
    [self |-> [self EXCEPT !.input = <<input>>],
     ret  |-> [i \in 1..Rows(input) |->
                 [j \in 1..Cols(input) |-> RMax(Zero, input[i][j])]]]

\* a slip: the gradient is let through where the input is 0
ReLULayer_backward_geq(self, upstream_gradient) ==
    LET cached == self.input[1]
        mask == [i \in 1..Rows(cached) |->
                   [j \in 1..Cols(cached) |->
                      IF RLeq(Zero, cached[i][j]) THEN One ELSE Zero]]
    IN  [self |-> self, ret |-> MatHadamard(upstream_gradient, mask)]

\* downstream_gradient = upstream_gradient * (self.input > 0)
ReLULayer_backward(self, upstream_gradient) ==
    LET cached == self.input[1]
        mask == [i \in 1..Rows(cached) |->
                   [j \in 1..Cols(cached) |->
                      IF RLess(Zero, cached[i][j]) THEN One ELSE Zero]]
    IN  [self |-> self, ret |-> MatHadamard(upstream_gradient, mask)]

ReLULayer_update(self, learning_rate) == [self |-> self, ret |-> <<>>]

\* ---- class OutputLayer ----
OutputLayer_new(n_classes) == [NewLayer("Output") EXCEPT !.n_classes = n_classes]

\* np.exp is not a rational function.  The model keeps of it that it is
\* positive and increasing, and computes it to the base 2 with the exponent
\* rounded down to an integer: exp(z) ~ 2^floor(z).  Softmax itself is
\* computed from it as in the code.
RECURSIVE Pow2(_)
Pow2(k) == IF k = 0 THEN One
           ELSE IF k > 0 THEN RMul(Num(2), Pow2(k - 1))
           ELSE RDiv(Pow2(k + 1), Num(2))
Exp(z) == Pow2(z[1] \div z[2])

\* softmax = np.exp(input) / np.sum(np.exp(input), axis=1, keepdims=True)
OutputLayer_forward(self, input) ==
    LET e == [i \in 1..Rows(input) |-> [j \in 1..Cols(input) |-> Exp(input[i][j])]]
    IN  [self |-> [self EXCEPT !.input = <<input>>],
         ret  |-> [i \in 1..Rows(e) |->
                     [j \in 1..Cols(e) |-> RDiv(e[i][j], RSum(e[i]))]]]

\* np.eye(nb_classes)[targets]: one row of the identity per (0-based) label
get_one_hot(targets, nb_classes) ==
    [i \in 1..Len(targets) |-> Eye(nb_classes)[targets[i] + 1]]

\* a slip: the posteriors are recomputed from the input forward remembered
OutputLayer_backward_from_cache(self, predicted_posteriors, true_labels) ==
    LET one_hot_labels == get_one_hot(true_labels, self.n_classes)
        P == IF IsSet(self.input) /\ Rows(self.input[1]) = Rows(predicted_posteriors)
             THEN OutputLayer_forward(self, self.input[1]).ret
             ELSE predicted_posteriors
    IN  [self |-> self, ret |-> MatSub(P, one_hot_labels)]

OutputLayer_backward(self, predicted_posteriors, true_labels) ==
    LET one_hot_labels == get_one_hot(true_labels, self.n_classes)
    IN  [self |-> self, ret |-> MatSub(predicted_posteriors, one_hot_labels)]

OutputLayer_update(self, learning_rate) == [self |-> self, ret |-> <<>>]

\* ---- class LinearLayer ----
\* np.random.normal(0, 0.01, shape): the t-th number drawn under a seed
RandomNormal(seed, t) == Rat((((seed + t) * 7) % 5) - 2, 2)

LinearLayer_new(n_inputs, n_outputs, seed) ==
    [NewLayer("Linear") EXCEPT
        !.n_inputs = n_inputs,
        !.n_outputs = n_outputs,
        !.B = [k \in 1..n_inputs |->
                 [j \in 1..n_outputs |-> RandomNormal(seed, (k - 1) * n_outputs + j)]],
        !.b = [j \in 1..n_outputs |-> RandomNormal(seed, n_inputs * n_outputs + j)]]

\* a slip: forward does not remember its input
LinearLayer_forward_no_cache(self, input) ==
    [self |-> self, ret |-> AddRowVec(MatMul(input, self.B), self.b)]

\* preactivations = self.input @ self.B + self.b
LinearLayer_forward(self, input) ==
    [self |-> [self EXCEPT !.input = <<input>>],
     ret  |-> AddRowVec(MatMul(input, self.B), self.b)]

\* a slip: the gradient of the weights averaged over the batch as well
LinearLayer_backward_mean(self, upstream_gradient) ==
    LET grad_b == VecDiv(SumAxis0(upstream_gradient), Num(Rows(upstream_gradient)))
        grad_B == MatScale(Rat(1, Rows(upstream_gradient)),
                           MatMul(Transpose(self.input[1]), upstream_gradient))
    IN  [self |-> [self EXCEPT !.grad_b = <<grad_b>>, !.grad_B = <<grad_B>>],
         ret  |-> MatMul(upstream_gradient, Transpose(self.B))]

\* a slip: backward applies the gradient step itself
LinearLayer_backward_fused(self, upstream_gradient) ==
    LET grad_b == VecDiv(SumAxis0(upstream_gradient), Num(Rows(upstream_gradient)))
        grad_B == MatMul(Transpose(self.input[1]), upstream_gradient)
    IN  [self |-> [self EXCEPT !.grad_b = <<grad_b>>, !.grad_B = <<grad_B>>,
                               !.B = MatSub(self.B, grad_B)],
         ret  |-> MatMul(upstream_gradient, Transpose(self.B))]

LinearLayer_backward(self, upstream_gradient) ==
    LET grad_b == VecDiv(SumAxis0(upstream_gradient), Num(Rows(upstream_gradient)))
        grad_B == MatMul(Transpose(self.input[1]), upstream_gradient)
    IN  [self |-> [self EXCEPT !.grad_b = <<grad_b>>, !.grad_B = <<grad_B>>],
         ret  |-> MatMul(upstream_gradient, Transpose(self.B))]

LinearLayer_update(self, learning_rate) ==
    [self |-> [self EXCEPT
                 !.B = MatSub(self.B, MatScale(learning_rate, self.grad_B[1])),
                 !.b = VecSub(self.b, VecScale(learning_rate, self.grad_b[1]))],
     ret  |-> <<>>]

\* ---- the calls layer.forward, layer.backward, layer.update (duck typing) ----
Layer_forward(self, input) ==
    CASE self.kind = "ReLU"   -> ReLULayer_forward(self, input)
      [] self.kind = "Output" -> OutputLayer_forward(self, input)
      [] self.kind = "Linear" -> LinearLayer_forward(self, input)

Layer_backward(self, upstream_gradient) ==
    CASE self.kind = "ReLU"   -> ReLULayer_backward(self, upstream_gradient)
      [] self.kind = "Linear" -> LinearLayer_backward(self, upstream_gradient)

Layer_update(self, learning_rate) ==
    CASE self.kind = "ReLU"   -> ReLULayer_update(self, learning_rate)
      [] self.kind = "Output" -> OutputLayer_update(self, learning_rate)
      [] self.kind = "Linear" -> LinearLayer_update(self, learning_rate)

\* ------------------------------------------------------------------------
\* class MLP: the constructor
\* ------------------------------------------------------------------------
\* a slip: n_in is not carried from one layer to the next
RECURSIVE InteriorLayers_stale_n_in(_, _, _, _)
InteriorLayers_stale_n_in(built, n_in, sizes, seed) ==
    IF sizes = <<>> THEN [layers |-> built, n_in |-> n_in]
    ELSE InteriorLayers_stale_n_in(
            built \o <<LinearLayer_new(n_in, Head(sizes), seed + Len(built)),
                        ReLULayer_new>>,
            n_in, Tail(sizes), seed)

\* for n_out in layer_sizes[:-1]: append Linear(n_in, n_out), ReLU; n_in = n_out
RECURSIVE InteriorLayers(_, _, _, _)
InteriorLayers(built, n_in, sizes, seed) ==
    IF sizes = <<>> THEN [layers |-> built, n_in |-> n_in]
    ELSE InteriorLayers(
            built \o <<LinearLayer_new(n_in, Head(sizes), seed + Len(built)),
                        ReLULayer_new>>,
            Head(sizes), Tail(sizes), seed)

MLP_init(n_features, layer_sizes, seed) ==
    LET interior == InteriorLayers(<<>>, n_features,
                                   SubSeq(layer_sizes, 1, Len(layer_sizes) - 1), seed)
        n_out == layer_sizes[Len(layer_sizes)]
    IN  [n_layers |-> Len(layer_sizes),
         layers |-> interior.layers \o
                    <<LinearLayer_new(interior.n_in, n_out, seed + Len(interior.layers)),
                      OutputLayer_new(n_out)>>]

\* ------------------------------------------------------------------------
\* State
\* ------------------------------------------------------------------------
VARIABLES
    arg,                \* the caller's arguments: of MLP(...) and of train(...)
    layers,             \* self.layers of the MLP (<<>> before construction)
    pc,                 \* the position of the program
    epoch,              \* train: i
    batch,              \* train: batch
    permutation,        \* train: permutation (0-based indices)
    X, Y,               \* update: the mini-batch
    result,             \* MLP.forward: result
    posteriors,         \* update: posteriors
    predicted_classes,  \* update: predicted_classes (computed, never read)
    upstream_gradient,  \* MLP.backward: upstream_gradient
    idx,                \* the position of the running loop over self.layers
    trace,              \* history: the layer calls of the running MLP.update
    nUpdates,           \* history: the number of calls of MLP.update so far
    batches             \* history: the index lists of this epoch's mini-batches

vars == <<arg, layers, pc, epoch, batch, permutation, X, Y, result, posteriors,
          predicted_classes, upstream_gradient, idx, trace, nUpdates, batches>>

trainVars == <<epoch, batch, permutation, nUpdates, batches>>
updateVars == <<X, Y, result, posteriors, predicted_classes, upstream_gradient, idx>>

\* ------------------------------------------------------------------------
\* The inputs the model draws
\* ------------------------------------------------------------------------
MaxSeed == 2
MaxRows == 2

\* the values the drawn matrices are made of
PoolVals == <<Num(-1), Zero, Rat(1, 2), Num(2)>>
\* the s-th drawn matrix of shape r x c
PoolMatrix(s, r, c) ==
    [i \in 1..r |-> [j \in 1..c |-> PoolVals[((s + 2 * i + j) % Len(PoolVals)) + 1]]]

LearningRates == {Rat(1, 2)}

\* all sequences over S of a length in lo..hi
SeqsOf(S, lo, hi) == UNION {[1..n -> S] : n \in lo..hi}

\* a data set of N instances for a network: rows of features, 0-based labels
DataX(seed, N, n_features) == PoolMatrix(seed, N, n_features)
DataY(seed, N, n_classes) == [k \in 1..N |-> (k + seed) % n_classes]

NoTrain == [x |-> <<>>, y |-> <<>>, n_epochs |-> 0, batch_size |-> 1,
            learning_rate |-> One]

\* the networks MLP.train is run on: <<n_features, layer_sizes>>
TrainNets == {<<2, <<2>>>>, <<2, <<1, 2>>>>, <<1, <<2, 2>>>>}

\* the calls train(x, y, n_epochs, batch_size, learning_rate) of the model:
\* <<len(x), batch_size, n_epochs>> with len(x) <= MaxN and n_epochs <=
\* MaxEpochs, for a network of n Linear layers.  The exact numbers of the
\* model grow with every LinearLayer.update, so a run makes at most MaxWork
\* of them.
TrainCalls(n) ==
    {c \in (0..MaxN) \X (1..(MaxN + 1)) \X (0..MaxEpochs) :
        c[3] * (c[1] \div c[2]) * n <= MaxWork}

TrainArgsOf(net) ==
    {[n_features |-> net[1], layer_sizes |-> net[2], seed |-> seed,
      x |-> DataX(seed, c[1], net[1]),
      y |-> DataY(seed, c[1], net[2][Len(net[2])]),
      n_epochs |-> c[3], batch_size |-> c[2], learning_rate |-> lr] :
        seed \in 1..MaxSeed, lr \in LearningRates, c \in TrainCalls(Len(net[2]))}

TrainArgs == UNION {TrainArgsOf(net) : net \in TrainNets}

N == Len(arg.x)
\* a slip: the number of mini-batches rounded up, so that a last, shorter
\* mini-batch takes the remainder
n_batches_rounded_up == (N + arg.batch_size - 1) \div arg.batch_size
n_batches == N \div arg.batch_size
L == Len(layers)

\* ------------------------------------------------------------------------
\* Python and numpy helpers of MLP
\* ------------------------------------------------------------------------
Min(a, b) == IF a < b THEN a ELSE b

\* s[start:stop] for 0 <= start <= stop: the slice is cut at the end of s
PySlice(s, start, stop) == SubSeq(s, Min(start, Len(s)) + 1, Min(stop, Len(s)))

\* a[indices], indices a sequence of 0-based positions
Take(a, indices) == [k \in 1..Len(indices) |-> a[indices[k] + 1]]

\* np.random.permutation(n): any permutation of 0..n-1
RandomPermutations(n) ==
    {p \in [1..n -> 0..(n - 1)] : \A a, c \in 1..n : a # c => p[a] # p[c]}

\* X.reshape(batch_size, -1): each instance laid out as one row; the
\* instances of the model are feature vectors, which are their own layout
Reshape(M) == [k \in 1..Len(M) |-> [f \in 1..Len(M[k]) |-> M[k][f]]]

\* np.argmax(row): the 0-based position of the first maximum
ArgMax(row) ==
    CHOOSE j \in 0..(Len(row) - 1) :
        /\ \A k \in 1..Len(row) : RLeq(row[k], row[j + 1])
        /\ \A k \in 1..j : RLess(row[k], row[j + 1])

Call(op, layer, args, out) ==
    [op |-> op, layer |-> layer, args |-> args, ret |-> out.ret,
     before |-> layers[layer], after |-> out.self]

\* ------------------------------------------------------------------------
\* MLP.__init__ and MLP.train, one step per layer call
\* ------------------------------------------------------------------------
InitWith(args) ==
    /\ arg \in args
    /\ layers = <<>>
    /\ pc = "new"
    /\ epoch = 0 /\ batch = 0 /\ permutation = <<>>
    /\ X = <<>> /\ Y = <<>> /\ result = <<>> /\ posteriors = <<>>
    /\ predicted_classes = <<>> /\ upstream_gradient = <<>> /\ idx = 0
    /\ trace = <<>> /\ nUpdates = 0 /\ batches = <<>>

\* network = MLP(n_features, layer_sizes)
Construct ==
    /\ pc = "new"
    /\ layers' = MLP_init(arg.n_features, arg.layer_sizes, arg.seed).layers
    /\ pc' = "constructed"
    /\ UNCHANGED <<arg, trace>>
    /\ UNCHANGED trainVars
    /\ UNCHANGED updateVars

\* network.train(...): N = len(x); n_batches = N // batch_size
TrainCall ==
    /\ pc = "constructed"
    /\ pc' = "epoch"
    /\ epoch' = 0
    /\ UNCHANGED <<arg, layers, trace, batch, permutation, nUpdates, batches>>
    /\ UNCHANGED updateVars

\* a slip: one epoch too many
MoreEpochs_inclusive == epoch <= arg.n_epochs
\* for i in range(n_epochs): the range is not exhausted
MoreEpochs == epoch < arg.n_epochs

\* for i in range(n_epochs): permutation = np.random.permutation(N)
TrainEpoch ==
    /\ pc = "epoch"
    /\ MoreEpochs
    /\ \E p \in RandomPermutations(N) : permutation' = p
    /\ batch' = 0
    /\ batches' = <<>>
    /\ pc' = "batch"
    /\ UNCHANGED <<arg, layers, trace, epoch, nUpdates>>
    /\ UNCHANGED updateVars

\* the loop over the epochs is exhausted: train returns
TrainReturn ==
    /\ pc = "epoch"
    /\ ~MoreEpochs
    /\ pc' = "done"
    /\ UNCHANGED <<arg, layers, trace>>
    /\ UNCHANGED trainVars
    /\ UNCHANGED updateVars

\* the start position of mini-batch number b
BatchStart(b) == b * arg.batch_size

\* for batch in range(n_batches): create the mini-batch and call
\* self.update(x_batch, y_batch, learning_rate), which calls self.forward(X)
TrainBatch ==
    /\ pc = "batch"
    /\ batch < n_batches
    /\ LET start == BatchStart(batch)
           indices == PySlice(permutation, start, start + arg.batch_size)
           x_batch == Take(arg.x, indices)
           y_batch == Take(arg.y, indices)
       IN  /\ X' = x_batch
           /\ Y' = y_batch
           /\ result' = Reshape(x_batch)
           /\ batches' = Append(batches, indices)
    /\ nUpdates' = nUpdates + 1
    /\ trace' = <<>>
    /\ idx' = 1
    /\ pc' = "forward"
    /\ UNCHANGED <<arg, layers, epoch, batch, permutation, posteriors,
                   predicted_classes, upstream_gradient>>

\* the loop over the mini-batches is exhausted: the next epoch
TrainEpochEnd ==
    /\ pc = "batch"
    /\ ~(batch < n_batches)
    /\ epoch' = epoch + 1
    /\ pc' = "epoch"
    /\ UNCHANGED <<arg, layers, trace, batch, permutation, nUpdates, batches>>
    /\ UNCHANGED updateVars

\* MLP.forward: for layer in self.layers: result = layer.forward(result);
\* after the last layer update has posteriors and takes their argmax
ForwardStep ==
    /\ pc = "forward"
    /\ \E out \in {Layer_forward(layers[idx], result)} :
           /\ layers' = [layers EXCEPT ![idx] = out.self]
           /\ result' = out.ret
           /\ trace' = Append(trace, Call("forward", idx, <<result>>, out))
           /\ IF idx < L
              THEN /\ idx' = idx + 1
                   /\ UNCHANGED <<pc, posteriors, predicted_classes>>
              ELSE /\ posteriors' = out.ret
                   /\ predicted_classes' =
                          [k \in 1..Rows(out.ret) |-> ArgMax(out.ret[k])]
                   /\ pc' = "backward"
                   /\ idx' = 1
    /\ UNCHANGED <<arg, X, Y, upstream_gradient>>
    /\ UNCHANGED trainVars

\* a slip: the interior layers in list order, not reversed
ReversedInterior_not_reversed == [k \in 1..(L - 1) |-> k]
\* reversed(self.layers[:-1]): the positions L-1, ..., 1
ReversedInterior == [k \in 1..(L - 1) |-> L - k]
\* the layers in the order MLP.backward calls them: self.layers[-1] first
BackwardOrder == <<L>> \o ReversedInterior

\* MLP.backward: the Output layer's backward(predicted_posteriors,
\* true_classes) first, then for layer in reversed(self.layers[:-1]);
\* idx is the position in BackwardOrder
BackwardStep ==
    /\ pc = "backward"
    /\ \E layer \in {BackwardOrder[idx]} :
       \E out \in {IF idx = 1
                   THEN OutputLayer_backward(layers[layer], posteriors, Y)
                   ELSE Layer_backward(layers[layer], upstream_gradient)},
          args \in {IF idx = 1 THEN <<posteriors, Y>> ELSE <<upstream_gradient>>} :
           /\ layers' = [layers EXCEPT ![layer] = out.self]
           /\ upstream_gradient' = out.ret
           /\ trace' = Append(trace, Call("backward", layer, args, out))
    /\ IF idx < Len(BackwardOrder)
       THEN idx' = idx + 1 /\ pc' = pc
       ELSE idx' = 1 /\ pc' = "update"
    /\ UNCHANGED <<arg, X, Y, result, posteriors, predicted_classes>>
    /\ UNCHANGED trainVars

\* MLP.update: for layer in self.layers: layer.update(learning_rate); after
\* the last layer update returns to train's loop over the mini-batches
UpdateStep ==
    /\ pc = "update"
    /\ \E out \in {Layer_update(layers[idx], arg.learning_rate)} :
           /\ layers' = [layers EXCEPT ![idx] = out.self]
           /\ trace' = Append(trace, Call("update", idx, <<arg.learning_rate>>, out))
    /\ IF idx < L
       THEN idx' = idx + 1 /\ pc' = pc /\ batch' = batch
       ELSE idx' = 0 /\ pc' = "batch" /\ batch' = batch + 1
    /\ UNCHANGED <<arg, epoch, permutation, nUpdates, batches>>
    /\ UNCHANGED <<X, Y, result, posteriors, predicted_classes, upstream_gradient>>

Init == InitWith(TrainArgs)

Next ==
    \/ Construct
    \/ TrainCall
    \/ TrainEpoch
    \/ TrainReturn
    \/ TrainBatch
    \/ TrainEpochEnd
    \/ ForwardStep
    \/ BackwardStep
    \/ UpdateStep

Spec == Init /\ [][Next]_vars

\* Python runs the statements of train one after the other: a step that can
\* be taken is taken
FairSpec == Spec /\ WF_vars(Next)

\* ------------------------------------------------------------------------
\* The constructor alone, over all small networks
\* ------------------------------------------------------------------------
NewArgs ==
    {[n_features |-> n_features, layer_sizes |-> layer_sizes, seed |-> seed] @@ NoTrain :
        n_features \in 1..MaxWidth,
        layer_sizes \in SeqsOf(1..MaxWidth, 1, MaxDepth),
        seed \in 1..MaxSeed}

NewInit == InitWith(NewArgs)
NewNext == Construct
NewSpec == NewInit /\ [][NewNext]_vars

\* ------------------------------------------------------------------------
\* The layers called directly, in any order: up to MaxCalls calls of
\* forward, backward and update on the layers of a constructed network,
\* with drawn arguments of the shapes the layer accepts
\* ------------------------------------------------------------------------
ApiNets == {<<2, <<1, 2>>>>, <<1, <<2, 1>>>>}

ApiArgs ==
    {[n_features |-> net[1], layer_sizes |-> net[2], seed |-> seed] @@ NoTrain :
        net \in ApiNets, seed \in 1..MaxSeed}

\* the number of columns layer k takes: what the layer before it puts out
InWidth(k) ==
    CASE layers[k].kind = "Linear" -> layers[k].n_inputs
      [] layers[k].kind = "ReLU"   -> layers[k - 1].n_outputs
      [] layers[k].kind = "Output" -> layers[k].n_classes

\* drawn posteriors: one-hot rows, the class of row i moving with the seed,
\* or the uniform distribution in every row
OneHotRow(n, c) == [j \in 1..n |-> IF j = c + 1 THEN One ELSE Zero]
PosteriorPool(r, n) ==
    {[i \in 1..r |-> OneHotRow(n, (i + s) % n)] : s \in 1..MaxSeed}
    \cup {[i \in 1..r |-> [j \in 1..n |-> Rat(1, n)]]}

\* the layers are separate objects that share no state: the calls of one
\* behaviour are all made on one of them
ApiCall(k, call) ==
    /\ trace # <<>> => trace[1].layer = k
    /\ layers' = [layers EXCEPT ![k] = call.after]
    /\ trace' = Append(trace, call)
    /\ UNCHANGED <<arg, pc>>
    /\ UNCHANGED trainVars
    /\ UNCHANGED updateVars

ApiForward ==
    /\ pc = "constructed"
    /\ Len(trace) < MaxCalls
    /\ \E k \in 1..L, r \in 1..MaxRows, s \in 1..MaxSeed :
        LET input == PoolMatrix(s, r, InWidth(k))
        IN  ApiCall(k, Call("forward", k, <<input>>, Layer_forward(layers[k], input)))

\* backward of a Linear or ReLU layer reads self.input: the call is made
\* once forward has set it, with a gradient of the shape of forward's output
ApiBackward ==
    /\ pc = "constructed"
    /\ Len(trace) < MaxCalls
    /\ \E k \in 1..L :
        IF layers[k].kind = "Output"
        THEN \E r \in 1..MaxRows :
                \E P \in PosteriorPool(r, layers[k].n_classes),
                   labels \in [1..r -> 0..(layers[k].n_classes - 1)] :
                    ApiCall(k, Call("backward", k, <<P, labels>>,
                                    OutputLayer_backward(layers[k], P, labels)))
        ELSE /\ IsSet(layers[k].input)
             /\ \E s \in 1..MaxSeed :
                 LET cached == layers[k].input[1]
                     G == PoolMatrix(s, Rows(cached),
                                     IF layers[k].kind = "Linear"
                                     THEN layers[k].n_outputs ELSE Cols(cached))
                 IN  ApiCall(k, Call("backward", k, <<G>>, Layer_backward(layers[k], G)))

\* update of a Linear layer reads self.grad_B and self.grad_b: the call is
\* made once backward has set them
ApiUpdate ==
    /\ pc = "constructed"
    /\ Len(trace) < MaxCalls
    /\ \E k \in 1..L, lr \in LearningRates :
        /\ layers[k].kind = "Linear" => IsSet(layers[k].grad_B)
        /\ ApiCall(k, Call("update", k, <<lr>>, Layer_update(layers[k], lr)))

ApiInit == InitWith(ApiArgs)
ApiNext == Construct \/ ApiForward \/ ApiBackward \/ ApiUpdate
ApiSpec == ApiInit /\ [][ApiNext]_vars

\* ------------------------------------------------------------------------
\* Claims about MLP.train
\* ------------------------------------------------------------------------
InEpoch == pc \in {"batch", "forward", "backward", "update"}
InUpdate == pc \in {"forward", "backward", "update"}

\* the indices some mini-batch of the running epoch uses
UsedIndices == {batches[j][k] : j \in 1..Len(batches), k \in 1..arg.batch_size}

\* C1: in every epoch exactly N // batch_size mini-batches are passed to
\* update; each consists of exactly batch_size indices, a contiguous block of
\* the one permutation of 0..N-1 drawn for the epoch; no index occurs twice
\* in the mini-batches of an epoch; the N mod batch_size indices at the end
\* of the permutation are in no mini-batch; x_batch and y_batch are selected
\* by the same indices.
C1_EpochBatching ==
    /\ InEpoch =>
        /\ Len(permutation) = N
        /\ {permutation[k] : k \in 1..N} = 0..(N - 1)
        /\ Len(batches) <= N \div arg.batch_size
        /\ nUpdates = epoch * (N \div arg.batch_size) + Len(batches)
        /\ \A j \in 1..Len(batches) :
            /\ Len(batches[j]) = arg.batch_size
            /\ \A k \in 1..arg.batch_size :
                batches[j][k] = permutation[(j - 1) * arg.batch_size + k]
        /\ \A j1, j2 \in 1..Len(batches) : \A k1, k2 \in 1..arg.batch_size :
            <<j1, k1>> # <<j2, k2>> => batches[j1][k1] # batches[j2][k2]
        /\ \A t \in (N - (N % arg.batch_size) + 1)..N : permutation[t] \notin UsedIndices
    /\ InUpdate =>
        /\ Len(X) = arg.batch_size /\ Len(Y) = arg.batch_size
        /\ \A k \in 1..arg.batch_size :
            /\ X[k] = arg.x[batches[Len(batches)][k] + 1]
            /\ Y[k] = arg.y[batches[Len(batches)][k] + 1]
    /\ (pc = "epoch" /\ epoch > 0) =>
        /\ Len(batches) = N \div arg.batch_size
        /\ Cardinality(UsedIndices) = N - (N % arg.batch_size)
        /\ nUpdates = epoch * (N \div arg.batch_size)

\* a second epoch has ended whose mini-batches left a remainder unused
C1_Witness ==
    /\ pc = "epoch" /\ epoch = 2
    /\ N % arg.batch_size # 0
    /\ Len(batches) >= 1

\* C2: train terminates, and returns after exactly n_epochs * (N //
\* batch_size) calls of update, whatever the data and the parameters; it
\* makes no call of update when batch_size > N.
C2_TrainTerminates ==
    /\ [](pc = "done" =>
            /\ nUpdates = arg.n_epochs * (N \div arg.batch_size)
            /\ arg.batch_size > N => nUpdates = 0)
    /\ <>(pc = "done")

\* train has returned after two epochs of two mini-batches each
C2_Witness == pc = "done" /\ arg.n_epochs = 2 /\ nUpdates = 4

\* ------------------------------------------------------------------------
\* Claims about MLP.update: the layer calls of one mini-batch
\* ------------------------------------------------------------------------
\* the k-th layer call of one MLP.update, as <<operation, layer>>
ExpectedCall(k) ==
    IF k <= L THEN <<"forward", k>>
    ELSE IF k <= 2 * L THEN <<"backward", 2 * L - k + 1>>
    ELSE <<"update", k - 2 * L>>

HasCall(op, k) == \E e \in 1..Len(trace) : trace[e].op = op /\ trace[e].layer = k
CallOf(op, k) == trace[CHOOSE e \in 1..Len(trace) : trace[e].op = op /\ trace[e].layer = k]

\* C3: one MLP.update calls forward of layers[0..L-1] in list order, each
\* output feeding the next input; then backward of the Output layer with
\* (posteriors, Y); then backward of layers[L-2..0] in reverse order, each
\* given the gradient the layer after it returned; then update of
\* layers[0..L-1] in list order; each exactly once.  No update starts before
\* the last backward has ended: every gradient is computed with the weights
\* the layer had when the mini-batch came in.
C3_UpdateCallOrder ==
    (pc \in {"batch", "forward", "backward", "update"} /\ nUpdates > 0) =>
        /\ Len(trace) <= 3 * L
        /\ \A k \in 1..Len(trace) : <<trace[k].op, trace[k].layer>> = ExpectedCall(k)
        /\ pc = "forward" => Len(trace) < L
        /\ pc = "backward" => Len(trace) >= L /\ Len(trace) < 2 * L
        /\ pc = "update" => Len(trace) >= 2 * L /\ Len(trace) < 3 * L
        /\ pc = "batch" => Len(trace) = 3 * L
        /\ layers[L].kind = "Output"
        /\ \A k \in 1..Len(trace) :
            /\ k = 1 => trace[k].args = <<X>>
            /\ (1 < k /\ k <= L) => trace[k].args = <<trace[k - 1].ret>>
            /\ k = L + 1 => trace[k].args = <<trace[L].ret, Y>>
            /\ (L + 1 < k /\ k <= 2 * L) =>
                /\ trace[k].args = <<trace[k - 1].ret>>
                /\ trace[k].before.B = trace[trace[k].layer].before.B
                /\ trace[k].before.b = trace[trace[k].layer].before.b
                /\ trace[k].before.kind = "Linear" =>
                    trace[k].ret = MatMul(trace[k - 1].ret,
                                          Transpose(trace[trace[k].layer].before.B))
            /\ k > 2 * L => trace[k].args = <<arg.learning_rate>>

\* the update of a mini-batch has ended on a network with two Linear layers
C3_Witness == pc = "batch" /\ Len(trace) = 3 * L /\ L = 4 /\ nUpdates = 2

\* C4: while train runs no layer reads a stale or unset cache: when backward
\* of a layer runs, the layer's input is set and is what forward of that
\* layer received in the running mini-batch; when update of a Linear layer
\* runs, grad_B and grad_b are set and are what backward of that layer stored
\* in the running mini-batch.
C4_FreshCaches ==
    /\ pc = "backward" =>
        \A k \in 1..L : ~HasCall("backward", k) =>
            /\ HasCall("forward", k)
            /\ IsSet(layers[k].input)
            /\ layers[k].input[1] = CallOf("forward", k).args[1]
    /\ pc \in {"backward", "update"} => CallOf("forward", 1).args[1] = X
    /\ pc = "update" =>
        \A k \in 1..L : (layers[k].kind = "Linear" /\ ~HasCall("update", k)) =>
            /\ HasCall("backward", k)
            /\ IsSet(layers[k].grad_B) /\ IsSet(layers[k].grad_b)
            /\ layers[k].grad_B = CallOf("backward", k).after.grad_B
            /\ layers[k].grad_b = CallOf("backward", k).after.grad_b
            /\ layers[k].grad_B[1] = MatMul(Transpose(CallOf("forward", k).args[1]),
                                            CallOf("backward", k).args[1])

\* a Linear layer that holds the caches of an earlier mini-batch is about to
\* be updated with the gradients of a later one
C4_Witness ==
    /\ pc = "update" /\ nUpdates >= 2
    /\ layers[idx].kind = "Linear"
    /\ X # Take(arg.x, batches[1])

\* C10: the weights B and the intercepts b of a LinearLayer change only in
\* that layer's update, to B - learning_rate * grad_B and b - learning_rate *
\* grad_b; every other layer call (forward, backward, the update of another
\* layer) and every step of train leaves them as they are, and the list of
\* layers is the same after every step.
ParameterFrame ==
    /\ pc # "new" =>
        /\ Len(layers') = Len(layers)
        /\ \A k \in 1..Len(layers) :
            /\ layers'[k].kind = layers[k].kind
            /\ layers'[k].n_inputs = layers[k].n_inputs
            /\ layers'[k].n_outputs = layers[k].n_outputs
            /\ layers'[k].n_classes = layers[k].n_classes
    /\ \A k \in 1..Len(layers) :
        IF pc = "update" /\ idx = k /\ layers[k].kind = "Linear"
        THEN /\ layers'[k].B =
                   [i \in 1..layers[k].n_inputs |-> [j \in 1..layers[k].n_outputs |->
                       RSub(layers[k].B[i][j],
                            RMul(arg.learning_rate, layers[k].grad_B[1][i][j]))]]
             /\ layers'[k].b =
                   [j \in 1..layers[k].n_outputs |->
                       RSub(layers[k].b[j], RMul(arg.learning_rate, layers[k].grad_b[1][j]))]
        ELSE /\ layers'[k].B = layers[k].B
             /\ layers'[k].b = layers[k].b
C10_ParameterFrame == [][ParameterFrame]_vars

\* a Linear layer's update has changed its weights
C10_Witness ==
    \E e \in 1..Len(trace) :
        /\ trace[e].op = "update"
        /\ trace[e].before.kind = "Linear"
        /\ trace[e].after.B # trace[e].before.B
        /\ trace[e].after.b # trace[e].before.b
        /\ layers[trace[e].layer].B = trace[e].after.B

\* ------------------------------------------------------------------------
\* Claims about the constructor and about the single layers
\* ------------------------------------------------------------------------
\* the k-th (1-based) Linear layer of a constructed network
Linear(k) == layers[2 * k - 1]

\* C5: MLP(n_features, layer_sizes), len(layer_sizes) >= 1, builds exactly
\* 2 * len(layer_sizes) layers: Linear, ReLU alternating for every width but
\* the last, then a Linear and an Output layer with n_classes =
\* layer_sizes[-1]; the k-th Linear layer has n_outputs = layer_sizes[k] and
\* n_inputs = n_features for the first, else layer_sizes[k-1]: the output
\* width of the Linear layer before it.
C5_Construction ==
    pc = "constructed" =>
        LET n == Len(arg.layer_sizes)
        IN  /\ Len(layers) = 2 * n
            /\ \A k \in 1..(n - 1) :
                /\ layers[2 * k - 1].kind = "Linear"
                /\ layers[2 * k].kind = "ReLU"
            /\ layers[2 * n - 1].kind = "Linear"
            /\ layers[2 * n].kind = "Output"
            /\ layers[2 * n].n_classes = arg.layer_sizes[n]
            /\ \A k \in 1..n :
                /\ Linear(k).n_outputs = arg.layer_sizes[k]
                /\ Linear(k).n_inputs =
                       IF k = 1 THEN arg.n_features ELSE arg.layer_sizes[k - 1]
                /\ k > 1 => Linear(k).n_inputs = Linear(k - 1).n_outputs

\* a network of three Linear layers whose widths differ from the features
C5_Witness ==
    /\ pc = "constructed"
    /\ arg.n_features = 1
    /\ arg.layer_sizes = <<2, 1, 2>>
    /\ Len(layers) = 6

\* the calls made so far of an operation on a kind of layer
CallsOf(op, kind) ==
    {e \in 1..Len(trace) : trace[e].op = op /\ trace[e].before.kind = kind}

\* C7: LinearLayer.backward(G), with the cached input X of shape (B,
\* n_inputs) and G of shape (B, n_outputs), stores grad_b[j] = (the sum of
\* G[.][j] over the B rows) / B, stores grad_B = X^T G, a sum over the batch
\* that is not divided by B, of the shape of the weights, and returns G B^T,
\* of the shape of X.
C7_LinearBackward ==
    \A e \in CallsOf("backward", "Linear") :
        LET self == trace[e].before
            cached == self.input[1]
            G == trace[e].args[1]
            rows == 1..Rows(G)
            stored == trace[e].after
        IN  /\ Len(stored.grad_b[1]) = self.n_outputs
            /\ \A j \in 1..self.n_outputs :
                stored.grad_b[1][j] = RDiv(RSum([i \in rows |-> G[i][j]]), Num(Rows(G)))
            /\ Shape(stored.grad_B[1]) = <<self.n_inputs, self.n_outputs>>
            /\ Shape(stored.grad_B[1]) = Shape(self.B)
            /\ \A k \in 1..self.n_inputs : \A j \in 1..self.n_outputs :
                stored.grad_B[1][k][j] =
                    RSum([i \in rows |-> RMul(cached[i][k], G[i][j])])
            /\ Shape(trace[e].ret) = Shape(cached)
            /\ \A i \in rows : \A k \in 1..self.n_inputs :
                trace[e].ret[i][k] =
                    RSum([j \in 1..self.n_outputs |-> RMul(G[i][j], self.B[k][j])])

\* backward has run on a batch of two rows in a layer that is not square,
\* and has stored a weight gradient that its mean over the batch differs from
C7_Witness ==
    \E e \in CallsOf("backward", "Linear") :
        /\ Rows(trace[e].args[1]) = 2
        /\ trace[e].before.n_inputs # trace[e].before.n_outputs
        /\ \E k \in 1..trace[e].before.n_inputs : trace[e].after.grad_B[1][k][1] # Zero
        /\ layers[trace[e].layer].grad_B = trace[e].after.grad_B

\* C8: OutputLayer.backward(P, labels), labels in [0, n_classes), returns
\* P - one_hot(labels): entry (i, c) is P[i][c] - 1 where c = labels[i] and
\* P[i][c] elsewhere, hence all zeros when P is one_hot(labels); the result
\* is determined by the two arguments, whatever input forward cached.
C8_OutputBackward ==
    \A e \in CallsOf("backward", "Output") :
        LET P == trace[e].args[1]
            labels == trace[e].args[2]
            n == trace[e].before.n_classes
            ret == trace[e].ret
        IN  /\ Shape(ret) = Shape(P)
            /\ \A i \in 1..Rows(P) : \A c \in 0..(n - 1) :
                ret[i][c + 1] = IF c = labels[i]
                                THEN RSub(P[i][c + 1], One)
                                ELSE P[i][c + 1]
            /\ (\A i \in 1..Rows(P) : \A c \in 0..(n - 1) :
                    P[i][c + 1] = IF c = labels[i] THEN One ELSE Zero)
                => \A i \in 1..Rows(P) : \A c \in 1..n : ret[i][c] = Zero
            /\ trace[e].after = trace[e].before

\* backward was given the one-hot posteriors of its labels, for two classes,
\* after forward had cached an input whose softmax is something else
C8_Witness ==
    \E e \in CallsOf("backward", "Output") :
        /\ trace[e].before.n_classes = 2
        /\ IsSet(trace[e].before.input)
        /\ Shape(trace[e].before.input[1]) = Shape(trace[e].args[1])
        /\ OutputLayer_forward(trace[e].before, trace[e].before.input[1]).ret
               # trace[e].args[1]
        /\ \A i \in 1..Rows(trace[e].ret) : \A c \in 1..2 : trace[e].ret[i][c] = Zero

Sign(p) == IF p[1] > 0 THEN 1 ELSE IF p[1] < 0 THEN -1 ELSE 0

\* C9: ReLULayer.backward(G) returns, entry by entry, G[i][j] where the
\* input cached by the last forward is > 0 and 0 where it is < 0 or exactly
\* 0; ReLULayer.forward returns max(0, input) entry by entry, in the shape
\* of the input.
C9_ReLU ==
    /\ \A e \in CallsOf("backward", "ReLU") :
        LET cached == trace[e].before.input[1]
            G == trace[e].args[1]
        IN  /\ Shape(trace[e].ret) = Shape(G)
            /\ \A i \in 1..Rows(G) : \A j \in 1..Cols(G) :
                trace[e].ret[i][j] = IF Sign(cached[i][j]) = 1 THEN G[i][j] ELSE Zero
    /\ \A e \in CallsOf("forward", "ReLU") :
        LET input == trace[e].args[1]
        IN  /\ Shape(trace[e].ret) = Shape(input)
            /\ \A i \in 1..Rows(input) : \A j \in 1..Cols(input) :
                trace[e].ret[i][j] = IF Sign(input[i][j]) = 1 THEN input[i][j] ELSE Zero
            /\ trace[e].after.input = <<input>>

\* backward has run over a cached input with a positive, a zero and a
\* negative entry, each under a gradient entry that is not 0
C9_Witness ==
    \E e \in CallsOf("backward", "ReLU") :
        LET cached == trace[e].before.input[1]
            G == trace[e].args[1]
        IN  \A sign \in {-1, 0, 1} :
                \E i \in 1..Rows(G) : \E j \in 1..Cols(G) :
                    Sign(cached[i][j]) = sign /\ G[i][j] # Zero

\* ------------------------------------------------------------------------
\* The numerical gradient check
\* ------------------------------------------------------------------------
\* The cross-entropy loss takes a logarithm and is not rational.  Its
\* derivative with respect to the scores the Output layer receives is
\* posteriors - one_hot(labels) for each instance (section 4.3 of the
\* specification), so the loss of a batch, as a function of the parameters
\* near their present values, is to first order
\*     scale * sum over i, c of (posteriors - one_hot(Y))[i][c] * scores[i][c]
\* with scale = 1 for the loss summed over the batch and 1/B for its mean.
\* The check differences this function: the scores are recomputed by the
\* forward pass of the Linear and ReLU layers with one parameter moved by
\* FDStep.  The function is piecewise linear in one parameter, so the
\* quotient is the derivative exactly unless the step moves a ReLU input
\* across 0; such parameters are left out, as a gradient check does.
FDStep == Rat(1, 16)
Tolerance == Rat(1, 10000)

\* the inputs the layers k.. of net receive in a forward pass from input
RECURSIVE ForwardInputs(_, _, _)
ForwardInputs(net, input, k) ==
    IF k > Len(net) THEN <<>>
    ELSE <<input>> \o ForwardInputs(net, Layer_forward(net[k], input).ret, k + 1)

\* d loss / d scores of the summed loss, at the posteriors of the mini-batch
ScoreGradient ==
    [i \in 1..Rows(posteriors) |-> [c \in 1..Cols(posteriors) |->
        RSub(posteriors[i][c], IF c - 1 = Y[i] THEN One ELSE Zero)]]

BatchLoss(net, scale) ==
    LET scores == ForwardInputs(net, X, 1)[Len(net)]
    IN  RMul(scale,
             RSum([i \in 1..Rows(scores) |->
                 RSum([c \in 1..Cols(scores) |->
                     RMul(ScoreGradient[i][c], scores[i][c])])]))

\* no ReLU input of the mini-batch is 0 in net or changes its sign in moved
KinkFree(net, moved) ==
    LET base == ForwardInputs(net, X, 1)
        other == ForwardInputs(moved, X, 1)
    IN  \A k \in 1..Len(net) : net[k].kind = "ReLU" =>
            \A i \in 1..Rows(base[k]) : \A j \in 1..Cols(base[k]) :
                /\ Sign(base[k][i][j]) # 0
                /\ Sign(base[k][i][j]) = Sign(other[k][i][j])

FiniteDifference(net, moved, scale) ==
    RDiv(RSub(BatchLoss(moved, scale), BatchLoss(net, scale)), FDStep)

Close(p, q) == RLeq(RAbs(RSub(p, q)), Tolerance)

WeightMoved(k, i, j) == [layers EXCEPT ![k].B[i][j] = RAdd(@, FDStep)]
InterceptMoved(k, j) == [layers EXCEPT ![k].b[j] = RAdd(@, FDStep)]

\* the stored weight gradients match the finite differences of scale * loss
WeightGradientsMatch(scale) ==
    \A k \in 1..L : layers[k].kind = "Linear" =>
        \A i \in 1..layers[k].n_inputs : \A j \in 1..layers[k].n_outputs :
            KinkFree(layers, WeightMoved(k, i, j)) =>
                Close(layers[k].grad_B[1][i][j],
                      FiniteDifference(layers, WeightMoved(k, i, j), scale))

\* the stored intercept gradients match the finite differences of scale * loss
InterceptGradientsMatch(scale) ==
    \A k \in 1..L : layers[k].kind = "Linear" =>
        \A j \in 1..layers[k].n_outputs :
            KinkFree(layers, InterceptMoved(k, j)) =>
                Close(layers[k].grad_b[1][j],
                      FiniteDifference(layers, InterceptMoved(k, j), scale))

\* MLP.forward and MLP.backward have run on the mini-batch, no update yet
BackwardDone == pc = "update" /\ idx = 1

\* C6: after MLP.forward and MLP.backward on a batch of any size B >= 1,
\* every entry of grad_B and of grad_b of every Linear layer is within 1e-4
\* of the finite-difference derivative of one and the same batch loss (its
\* sum over the batch, or its mean) with respect to that parameter.
C6_GradientCheck ==
    BackwardDone =>
        \E scale \in {One, Rat(1, Rows(X))} :
            WeightGradientsMatch(scale) /\ InterceptGradientsMatch(scale)

\* what the code computes: grad_B is the gradient of the loss summed over the
\* batch and grad_b the gradient of its mean, which are gradients of the same
\* loss for batches of one row only
GradientsOfSumAndMean ==
    BackwardDone =>
        /\ WeightGradientsMatch(One)
        /\ InterceptGradientsMatch(Rat(1, Rows(X)))

====
